---- MODULE Spec2Model ----
(***************************************************************************)
(* A model of the deduplicating file store of bvzversionedfiles            *)
(* (src/src/bvzversionedfiles/bvzversionedfiles.py): the file system, the  *)
(* path arithmetic of os.path, the versioned namer, the verified copy, the *)
(* match resolver, the link binder and the batch loop.                     *)
(*                                                                         *)
(* A path string is a sequence of tokens.  A token is a pair              *)
(* <<text, digits>>: a one-character token has no digits, the version      *)
(* suffix "." + ver_prefix + str(v).rjust(num_digits, "0") is the token    *)
(* <<".v", digits>> with the decimal digits of the padded number.  String  *)
(* operations (startswith, join, split) work on the token sequence; the    *)
(* file system is keyed by normalised locations.                           *)
(***************************************************************************)
EXTENDS Integers, Sequences, FiniteSets, TLC

\* ------------------------------------------------------------------ bounds
MaxBatchLen == 3
MaxRuns == 2

\* ----------------------------------------------------------------- strings
\* the padding of version numbers every call is made with
VARIABLE num_digits

Tok(s) == <<s, <<>>>>
SEP == Tok("/")
UP == Tok("..")

\* str(v), for v >= 0: the decimal digits
RECURSIVE Str(_)
Str(v) == IF v < 10 THEN <<v>> ELSE Append(Str(v \div 10), v % 10)

\* s.rjust(n, "0"): zeros on the left up to n characters, s itself when it
\* is longer
RECURSIVE RJust(_, _)
RJust(s, n) == IF Len(s) >= n THEN s ELSE RJust(<<0>> \o s, n)

\* line 138: "." + ver_prefix + str(v).rjust(num_digits, "0")
Version(v) == <<".v", RJust(Str(v), num_digits)>>
IsExtTok(t) == t[1] \in {".v", ".e"}

\* s.split(sep): the pieces of s between the occurrences of sep
RECURSIVE StrSplit(_, _)
StrSplit(s, sep) ==
    IF \E k \in 1..(Len(s) + 1 - Len(sep)) : SubSeq(s, k, k + Len(sep) - 1) = sep
    THEN <<SubSeq(s, 1, (CHOOSE k \in 1..(Len(s) + 1 - Len(sep)) :
                            /\ SubSeq(s, k, k + Len(sep) - 1) = sep
                            /\ \A j \in 1..(k - 1) : SubSeq(s, j, j + Len(sep) - 1) # sep) - 1)>>
         \o StrSplit(SubSeq(s, (CHOOSE k \in 1..(Len(s) + 1 - Len(sep)) :
                                  /\ SubSeq(s, k, k + Len(sep) - 1) = sep
                                  /\ \A j \in 1..(k - 1) : SubSeq(s, j, j + Len(sep) - 1) # sep)
                                + Len(sep), Len(s)), sep)
    ELSE <<s>>

StartsWith(s, p) == Len(p) <= Len(s) /\ SubSeq(s, 1, Len(p)) = p

Join(a, b) ==
    IF b # <<>> /\ Head(b) = SEP THEN b
    ELSE IF a = <<>> \/ a[Len(a)] = SEP THEN a \o b
    ELSE a \o <<SEP>> \o b

LastSep(s) ==
    LET ks == {k \in 1..Len(s) : s[k] = SEP}
    IN IF ks = {} THEN 0 ELSE CHOOSE k \in ks : \A j \in ks : j <= k

FirstSep(s) ==
    LET ks == {k \in 1..Len(s) : s[k] = SEP}
    IN IF ks = {} THEN Len(s) + 1 ELSE CHOOSE k \in ks : \A j \in ks : k <= j

RECURSIVE RStrip(_)
RStrip(s) ==
    IF s # <<>> /\ s[Len(s)] = SEP THEN RStrip(SubSeq(s, 1, Len(s) - 1)) ELSE s

\* os.path.split: <<head, tail>>
Split(p) ==
    LET k == LastSep(p)
        head == SubSeq(p, 1, k)
        tail == SubSeq(p, k + 1, Len(p))
    IN <<IF RStrip(head) = <<>> THEN head ELSE RStrip(head), tail>>

\* os.path.splitext of a file name: <<base, ext>>
SplitExt(n) ==
    IF Len(n) >= 2 /\ IsExtTok(n[Len(n)])
    THEN <<SubSeq(n, 1, Len(n) - 1), <<n[Len(n)]>>>>
    ELSE <<n, <<>>>>

\* the components of a path string, empty components dropped
RECURSIVE CompsOf(_)
CompsOf(s) ==
    IF s = <<>> THEN <<>>
    ELSE LET k == FirstSep(s)
             head == SubSeq(s, 1, k - 1)
             rest == SubSeq(s, k + 1, Len(s))
         IN (IF head = <<>> THEN <<>> ELSE <<head>>) \o CompsOf(rest)

\* walk the components from the location acc, ".." steps to the parent
RECURSIVE Collapse(_, _)
Collapse(cs, acc) ==
    IF cs = <<>> THEN acc
    ELSE IF Head(cs) = <<UP>>
         THEN Collapse(Tail(cs), IF acc = <<>> THEN acc ELSE SubSeq(acc, 1, Len(acc) - 1))
         ELSE Collapse(Tail(cs), Append(acc, Head(cs)))

\* the location an absolute path string names (os.path.normpath)
Loc(p) == Collapse(CompsOf(p), <<>>)

Parent(loc) == SubSeq(loc, 1, Len(loc) - 1)

RECURSIVE JoinComps(_)
JoinComps(cs) ==
    IF cs = <<>> THEN <<>>
    ELSE IF Len(cs) = 1 THEN cs[1]
    ELSE cs[1] \o <<SEP>> \o JoinComps(Tail(cs))

\* a link text that is the absolute path of the file
RelPathAbsolute(path, start) == path

\* os.path.relpath(path, start)
RelPath(path, start) ==
    LET pl == Loc(path)
        sl == Loc(start)
        m == IF Len(pl) < Len(sl) THEN Len(pl) ELSE Len(sl)
        i == CHOOSE k \in 0..m :
                /\ SubSeq(pl, 1, k) = SubSeq(sl, 1, k)
                /\ \A j \in (k + 1)..m : SubSeq(pl, 1, j) # SubSeq(sl, 1, j)
        ups == [j \in 1..(Len(sl) - i) |-> <<UP>>]
        cs == ups \o SubSeq(pl, i + 1, Len(pl))
    IN IF cs = <<>> THEN <<Tok(".")>> ELSE JoinComps(cs)

\* ------------------------------------------------------------- file system
\* fs maps the location of every non-directory entry to the entry;
\* dirs is the set of locations that are directories.
\* perm is the permission bits of the entry, as chmod writes them
FileEntry(data, perm) == [kind |-> "file", data |-> data, target |-> <<>>, perm |-> perm]
LinkEntry(text) == [kind |-> "link", data |-> <<>>, target |-> text, perm |-> "0777"]

NoLoc == << <<Tok("?")>> >>

LinkDest(loc, text) ==
    IF text # <<>> /\ Head(text) = SEP THEN Loc(text)
    ELSE Collapse(CompsOf(text), Parent(loc))

\* follow symbolic links from loc; NoLoc when the chain does not end (ELOOP)
RECURSIVE Follow(_, _, _)
Follow(f, loc, fuel) ==
    IF loc \in DOMAIN f /\ f[loc].kind = "link"
    THEN IF fuel = 0 THEN NoLoc
         ELSE Follow(f, LinkDest(loc, f[loc].target), fuel - 1)
    ELSE loc

Resolve(f, p) == Follow(f, Loc(p), Cardinality(DOMAIN f))

\* every directory the kernel walks through on the way to p exists
Traversable(d, p) ==
    LET cs == CompsOf(p)
    IN \A k \in 0..(Len(cs) - 1) : Collapse(SubSeq(cs, 1, k), <<>>) \in d

\* os.path.exists, os.path.isfile (both follow links)
Exists(f, d, p) ==
    LET l == Resolve(f, p)
    IN Traversable(d, p) /\ l # NoLoc /\ (l \in DOMAIN f \/ l \in d)

IsFile(f, d, p) ==
    LET l == Resolve(f, p)
    IN Traversable(d, p) /\ l # NoLoc /\ l \in DOMAIN f

ReadFile(f, p) == f[Resolve(f, p)].data

GetSize(f, p) == Len(ReadFile(f, p))

\* the permission bits os.stat reports (links are followed)
StatMode(f, p) == f[Resolve(f, p)].perm

\* md5_for_file: the digest of the bytes read (distinct contents are taken
\* to have distinct digests)
Md5ForFile(f, p) == [md5 |-> ReadFile(f, p)]

\* files_are_identical without the comparison of the digests
FilesAreIdenticalBySize(f, a, b) == GetSize(f, a) = GetSize(f, b)

\* files_are_identical: sizes first, then digests
FilesAreIdentical(f, a, b) ==
    GetSize(f, a) = GetSize(f, b) /\ Md5ForFile(f, a) = Md5ForFile(f, b)

\* ------------------------------------------------------------------ errors
NoErr == [kind |-> "none", src |-> <<>>, dst |-> <<>>]
Raised(kind, src, dst) == [kind |-> kind, src |-> src, dst |-> dst]

\* ------------------------------------------- size index (bvzfilesystemlib)
EmptyMap == <<>>

\* the elements of S in some order
RECURSIVE SeqOf(_)
SeqOf(S) ==
    IF S = {} THEN <<>>
    ELSE LET x == CHOOSE y \in S : TRUE IN <<x>> \o SeqOf(S \ {x})

\* the orders in which the directory may be read: the order is not fixed by
\* the file system; one order and its reverse put every two files both ways round
Listings(S) ==
    LET q == SeqOf(S)
    IN {q, [k \in 1..Len(q) |-> q[Len(q) + 1 - k]]}

\* the paths os.walk(data_d) yields for the files of the data directory
ListedPaths(f, d, dir) ==
    {p \in {Join(dir, l[Len(l)]) : l \in {x \in DOMAIN f : Len(x) > 0 /\ Parent(x) = Loc(dir)}} :
        IsFile(f, d, p)}

\* dir_files_keyed_by_size: the listing, in the order the directory is read,
\* grouped by size
DirFilesKeyedBySize(f, order) ==
    LET sizes == {GetSize(f, order[k]) : k \in 1..Len(order)}
    IN [s \in sizes |-> SelectSeq(order, LAMBDA p : GetSize(f, p) = s)]

\* add_file_to_dict_by_size: append the path under the key of its size
AddFileToDictBySize(f, p, ds) ==
    LET s == GetSize(f, p)
    IN IF s \in DOMAIN ds THEN [ds EXCEPT ![s] = Append(@, p)]
       ELSE (s :> <<p>>) @@ ds

\* ---------------------------------------------------------- match resolver
\* the loop over possible_matches_p, from candidate k on; hs lists the
\* paths md5_for_file has been called on for this request
RECURSIVE FindMatch(_, _, _, _, _, _, _)
FindMatch(f, d, source_md5, cands, k, cache, hs) ==
    IF k > Len(cands) THEN [res |-> "miss", path |-> <<>>, cache |-> cache, hashed |-> hs]
    ELSE LET c == cands[k]
         IN IF c \in DOMAIN cache
            THEN IF cache[c] = source_md5
                 THEN [res |-> "hit", path |-> c, cache |-> cache, hashed |-> hs]
                 ELSE FindMatch(f, d, source_md5, cands, k + 1, cache, hs)
            ELSE IF ~IsFile(f, d, c)
                 THEN [res |-> "error", path |-> c, cache |-> cache, hashed |-> hs]
                 ELSE LET h == Md5ForFile(f, c)
                          cache2 == (c :> h) @@ cache
                      IN IF h = source_md5
                         THEN [res |-> "hit", path |-> c, cache |-> cache2,
                               hashed |-> Append(hs, c)]
                         ELSE FindMatch(f, d, source_md5, cands, k + 1, cache2,
                                        Append(hs, c))

\* ---------------------------------------------------------- versioned namer
VersionedPath(dir, base, ext, v) == Join(dir, base \o <<Version(v)>> \o ext)

\* a probe that finds every name free
ProbeVersionBlind(f, d, dir, base, ext, v) == [pc |-> "copy", v |-> v]

\* one turn of the while loop of copy_and_add_ver_num, lines 135-143: one
\* os.path.exists on version v, and where the caller goes from there
ProbeVersion(f, d, dir, base, ext, v) ==
    IF Exists(f, d, VersionedPath(dir, base, ext, v))
    THEN [pc |-> "scan", v |-> v + 1]
    ELSE [pc |-> "copy", v |-> v]

\* a namer that numbers after the highest version in use
FreeVersionAfterLast(f, d, dir, base, ext, v) ==
    LET used == {n \in 1..(Cardinality(DOMAIN f) + 1) :
                    Exists(f, d, VersionedPath(dir, base, ext, n))}
    IN IF used = {} THEN v
       ELSE 1 + CHOOSE n \in used : \A m \in used : m <= n

\* the while loop of copy_and_add_ver_num: the first v, from v on, whose
\* versioned path os.path.exists does not find
RECURSIVE FreeVersion(_, _, _, _, _, _)
FreeVersion(f, d, dir, base, ext, v) ==
    IF Exists(f, d, VersionedPath(dir, base, ext, v))
    THEN FreeVersion(f, d, dir, base, ext, v + 1)
    ELSE v

\* what shutil.copy writes: the bytes of the source, or a damaged copy
Written(data, mode) ==
    IF mode = "truncated" THEN SubSeq(data, 1, Len(data) - 1)
    ELSE IF mode = "flipped" /\ data # <<>>
         THEN [data EXCEPT ![Len(data)] = 1 - @]
         ELSE data

\* shutil.copy(src, dst): open(dst, "wb") follows links at dst, and the
\* permission bits of src are copied to dst
ShutilCopy(f, d, src, dst, mode) ==
    LET wl == Follow(f, Loc(dst), Cardinality(DOMAIN f))
    IN IF wl = NoLoc \/ wl \in d \/ wl = <<>> \/ Parent(wl) \notin d
       THEN [ok |-> FALSE, fs |-> f]
       ELSE [ok |-> TRUE,
             fs |-> (wl :> FileEntry(Written(ReadFile(f, src), mode), StatMode(f, src))) @@ f]

\* verified_copy_file, line 93 on: the checks on what shutil.copy (c) left
VerifiedCopyChecks(c, d, src, dst) ==
    IF ~c.ok THEN [err |-> Raised("OSError", src, dst), fs |-> c.fs]
    ELSE IF ~IsFile(c.fs, d, dst) \/ ~FilesAreIdentical(c.fs, src, dst)
         THEN [err |-> Raised("IOError", src, dst), fs |-> c.fs]
         ELSE [err |-> NoErr, fs |-> c.fs]

\* verified_copy_file
VerifiedCopyFile(f, d, src, dst, mode) ==
    VerifiedCopyChecks(ShutilCopy(f, d, src, dst, mode), d, src, dst)

\* line 148 of copy_and_add_ver_num: the copy c without verification
PlainCopy(c, src, dst) ==
    [err |-> IF c.ok THEN NoErr ELSE Raised("OSError", src, dst), fs |-> c.fs]

\* line 150 of copy_and_add_ver_num: the path is returned when the copy r
\* raised nothing
ReturnDestP(r, path) == [err |-> r.err, fs |-> r.fs, path |-> path]

\* lines 145-150 of copy_and_add_ver_num, on the versioned path found
CopyToVersion(f, d, source_p, path, verify, mode) ==
    ReturnDestP(IF verify THEN VerifiedCopyFile(f, d, source_p, path, mode)
                ELSE PlainCopy(ShutilCopy(f, d, source_p, path, mode), source_p, path),
                path)

\* lines 135-150 of copy_and_add_ver_num, on the directory dir and the
\* <<base, ext>> pair se
CopyVersioned(f, d, source_p, dir, se, verify, mode) ==
    CopyToVersion(f, d, source_p,
                  VersionedPath(dir, se[1], se[2], FreeVersion(f, d, dir, se[1], se[2], 1)),
                  verify, mode)

\* copy_and_add_ver_num
CopyAndAddVerNum(f, d, source_p, dest, verify, mode) ==
    CopyVersioned(f, d, source_p, Split(dest)[1], SplitExt(Split(dest)[2]), verify, mode)

\* os.makedirs(dir, exist_ok=True)
MakeDirs(f, d, dir) ==
    LET cs == CompsOf(dir)
        locs == {Collapse(SubSeq(cs, 1, k), <<>>) : k \in 0..Len(cs)}
    IN IF locs \cap DOMAIN f # {} THEN [ok |-> FALSE, dirs |-> d]
       ELSE [ok |-> TRUE, dirs |-> d \cup locs]

\* what copy_file_deduplicated leaves when it raises e
Failure(e, f, d, cache, hs) ==
    [err |-> e, fs |-> f, dirs |-> d, cache |-> cache, hashed |-> hs,
     data_file_p |-> <<>>, relative_p |-> <<>>, matched |-> FALSE]

\* lines 432-455 of copy_file_deduplicated: the candidates of the source's
\* size and the search among them
\* a resolver that hashes the source before it looks at the candidates
PossibleMatchHashFirst(f, d, cands, cache, source_p) ==
    FindMatch(f, d, Md5ForFile(f, source_p), cands, 1, cache, <<source_p>>)

PossibleMatch(f, d, cands, cache, source_p) ==
    IF cands = <<>>
    THEN [res |-> "miss", path |-> <<>>, cache |-> cache, hashed |-> <<>>]
    ELSE FindMatch(f, d, Md5ForFile(f, source_p), cands, 1, cache, <<source_p>>)

LookUp(f, d, ds, cache, source_p, size) ==
    PossibleMatch(f, d, IF size \in DOMAIN ds THEN ds[size] ELSE <<>>, cache, source_p)

\* lines 470-474: the directories of the link (md) and its relative text
LinkText(d, dp, m, c, md) ==
    IF ~md.ok
    THEN Failure(Raised("FileExistsError", <<>>, Split(dp)[1]), c.fs, d, m.cache, m.hashed)
    ELSE [err |-> NoErr, fs |-> c.fs, dirs |-> md.dirs, cache |-> m.cache,
          hashed |-> m.hashed,
          data_file_p |-> c.path,
          relative_p |-> RelPath(c.path, Split(dp)[1]),
          matched |-> (m.res = "hit")]

\* lines 467-474: the stored file c (copied, or matched) is in hand
StoredFile(d, dp, m, c) ==
    IF c.err # NoErr
    THEN Failure(c.err, c.fs, d, m.cache, m.hashed)
    ELSE LinkText(d, dp, m, c, MakeDirs(c.fs, d, Split(dp)[1]))

\* lines 459-474: the copy on a miss, on the outcome m of the search
StoreOrReuse(f, d, source_p, dp, data, verify, mode, m) ==
    IF m.res = "error"
    THEN Failure(Raised("OSError", m.path, <<>>), f, d, m.cache, m.hashed)
    ELSE StoredFile(d, dp, m,
                    IF m.res = "miss"
                    THEN CopyAndAddVerNum(f, d, source_p, Join(data, Split(dp)[2]),
                                          verify, mode)
                    ELSE [err |-> NoErr, fs |-> f, path |-> m.path])

\* lines 426-474 of copy_file_deduplicated: the checks, the match resolver,
\* the copy on a miss, the directories of the link and its relative text
ResolveAndStore(f, d, ds, cache, source_p, dp, data, verify, mode) ==
    IF StartsWith(dp, data)
    THEN Failure(Raised("ValueError", <<>>, dp), f, d, cache, <<>>)
    ELSE IF ~IsFile(f, d, source_p)
    THEN Failure(Raised("ValueError", source_p, <<>>), f, d, cache, <<>>)
    ELSE StoreOrReuse(f, d, source_p, dp, data, verify, mode,
                      LookUp(f, d, ds, cache, source_p, GetSize(f, source_p)))

\* ------------------------------------------------------- the inputs checked
SrcA == <<SEP, Tok("s"), SEP, Tok("a")>>
SrcB == <<SEP, Tok("s"), SEP, Tok("b")>>
SrcC == <<SEP, Tok("s"), SEP, Tok("c")>>
DataDir == <<SEP, Tok("d")>>
DestRoot == <<SEP, Tok("t")>>
DataLoc == Loc(DataDir)

\* a data directory holding x.v2 only (x.v1 was deleted by hand)
GapFile == <<SEP, Tok("d"), SEP, Tok("x"), Version(2)>>

NameX == <<Tok("x")>>
NameY == <<Tok("y"), Tok(".e")>>
\* a relative path that climbs out of dest_d, to x.v1 of the data directory
IntoData == <<UP, SEP, Tok("d"), SEP, Tok("x"), Version(1)>>

\* Copydescriptor.__init__, lines 28-30: the fields of a request
Copydescriptor(source_p, dest_relative_p, link_in_place) ==
    [source_p |-> source_p, dest_relative_p |-> dest_relative_p,
     link_in_place |-> link_in_place]

\* Copydescriptor.__init__, line 25: the only test the constructor makes
Constructed(f, d, cd) == Exists(f, d, cd.source_p)

SrcDir == <<SEP, Tok("s")>>
SrcNone == <<SEP, Tok("s"), SEP, Tok("n")>>

\* the requests a caller asks for: the last two have a directory and a path
\* that does not exist as their source
Asked ==
    { Copydescriptor(SrcA, NameX, FALSE),
      Copydescriptor(SrcB, NameY, FALSE),
      Copydescriptor(SrcC, NameX, FALSE),
      Copydescriptor(SrcA, NameY, TRUE),
      Copydescriptor(SrcC, IntoData, TRUE),
      Copydescriptor(SrcB, IntoData, FALSE),
      Copydescriptor(SrcC, SrcC, TRUE),
      Copydescriptor(SrcDir, NameX, FALSE),
      Copydescriptor(SrcNone, NameX, FALSE) }

\* the files the caller has when the requests are constructed
SourceFiles ==
    (Loc(SrcA) :> FileEntry(<<0>>, "0644")) @@ (Loc(SrcB) :> FileEntry(<<0>>, "0755"))
        @@ (Loc(SrcC) :> FileEntry(<<1>>, "0644"))

InitDirs == {<<>>, Parent(Loc(SrcA)), DataLoc}

\* the requests whose construction raised nothing
Requests == {cd \in Asked : Constructed(SourceFiles, InitDirs, cd)}

\* the paths os.walk(dir_d) joins for the files beneath dir_d (lines 240-242)
WalkedFiles(f, dir_d) ==
    {Join(dir_d, JoinComps(SubSeq(l, Len(Loc(dir_d)) + 1, Len(l)))) :
        l \in {x \in DOMAIN f : /\ Len(x) > Len(Loc(dir_d))
                                 /\ SubSeq(x, 1, Len(Loc(dir_d))) = Loc(dir_d)}}

\* directory_to_copydescriptors, for the order in which the walk yields the
\* files; a file Copydescriptor refuses ends in the NameError of line 249
\* (SquirrelError is not defined in the module)
DirectoryToCopydescriptors(f, d, dir_d, link_in_place, order) ==
    IF \E k \in 1..Len(order) :
          ~Constructed(f, d, Copydescriptor(order[k], StrSplit(order[k], dir_d)[2],
                                            link_in_place))
    THEN [err |-> Raised("NameError", <<>>, <<>>), cds |-> <<>>]
    ELSE [err |-> NoErr,
          cds |-> [k \in 1..Len(order) |->
                     Copydescriptor(order[k], StrSplit(order[k], dir_d)[2], link_in_place)]]

\* the request lists directory_to_copydescriptors makes of the source directory
WalkedBatches ==
    {DirectoryToCopydescriptors(SourceFiles, InitDirs, SrcDir, lip, order).cds :
        lip \in BOOLEAN, order \in Listings(WalkedFiles(SourceFiles, SrcDir))}

Batches == UNION {[1..n -> Requests] : n \in 1..MaxBatchLen} \cup WalkedBatches

\* (dest_d, data_d): apart, nested, equal, a sibling whose name starts with
\* the data directory's, and equal with data_d spelled with a trailing "/"
Configs ==
    { [dest_d |-> DestRoot, data_d |-> DataDir],
      [dest_d |-> DataDir \o <<SEP, Tok("t")>>, data_d |-> DataDir],
      [dest_d |-> DataDir, data_d |-> DataDir],
      [dest_d |-> DataDir \o <<Tok("l")>>, data_d |-> DataDir],
      [dest_d |-> DataDir, data_d |-> DataDir \o <<SEP>>] }

Modes(fault) == IF fault THEN {"exact", "truncated", "flipped"} ELSE {"exact"}

\* ------------------------------------------------------------------- state
VARIABLES
    fs, dirs,               \* the file system
    copy_fault,             \* whether the medium may damage a copy (it damages at most one)
    pc, err,                \* where the call is, and the exception raised
    cds, dest_d, data_d, do_verified_copy,   \* arguments of copy_files_deduplicated
    data_sizes, cached_md5, output, i,       \* its locals
    dest_p, link_text, data_file_p, matched, \* locals of the request in hand
    seen,                   \* per request, the bytes its source held when processed
    runs,                   \* calls made so far
    snap,                   \* what the previous call left, when it returned
    committed,              \* the file system as the last completed request left it
    hashed,                 \* the paths the match resolver has hashed in this call
    writers, serial         \* callers of copy_and_add_ver_num, and whether they take turns

vars == <<fs, dirs, copy_fault, pc, err, cds, dest_d, data_d, do_verified_copy,
          data_sizes, cached_md5, output, i, dest_p, link_text, data_file_p,
          matched, seen, runs, snap, committed, hashed, writers, serial,
          num_digits>>

\* the two processes that call copy_and_add_ver_num on their own
Writers == {1, 2}
IdleWriter == [pc |-> "idle", source_p |-> <<>>, v |-> 0, calls |-> 0, made |-> <<>>]
race == <<writers, serial>>

NoData == <<-1>>
NoSnap == [valid |-> FALSE, output |-> EmptyMap, files |-> EmptyMap, res |-> <<>>]

DestPath(dd, cd) == Join(dd, cd.dest_relative_p)

\* the entries of the data directory
DataView(f) == [l \in {x \in DOMAIN f : Len(x) > 0 /\ Parent(x) = DataLoc} |-> f[l]]

\* a link of the destination tree whose stored file was deleted by hand
StaleLink == DestRoot \o <<SEP>> \o NameY
StaleText == <<UP, SEP, Tok("d"), SEP, Tok("g")>>

\* the trees an earlier use left: x.v2 stored (x.v1 deleted since), and a
\* stale link in the destination tree
UsedTree ==
    (Loc(GapFile) :> FileEntry(<<1>>, "0644")) @@ (Loc(StaleLink) :> LinkEntry(StaleText))
        @@ SourceFiles

\* before the first call
InitCall ==
    /\ pc = "idle"
    /\ err = NoErr
    /\ cds = <<>>
    /\ dest_d = <<>>
    /\ data_d = <<>>
    /\ do_verified_copy = FALSE
    /\ data_sizes = EmptyMap
    /\ cached_md5 = EmptyMap
    /\ output = EmptyMap
    /\ i = 1
    /\ dest_p = <<>>
    /\ link_text = <<>>
    /\ data_file_p = <<>>
    /\ matched = FALSE
    /\ seen = <<>>
    /\ runs = 0
    /\ snap = NoSnap
    /\ committed = fs
    /\ hashed = <<>>
    /\ writers = [w \in Writers |-> IdleWriter]

InitBase ==
    /\ \/ fs = SourceFiles /\ dirs = InitDirs
       \/ fs = UsedTree /\ dirs = InitDirs \cup {Loc(DestRoot)}
    /\ InitCall

\* num_digits has its default, 4 (line 260)
Init == num_digits = 4 /\ InitBase /\ copy_fault = FALSE /\ serial = TRUE

InitFault == num_digits = 4 /\ InitBase /\ copy_fault = TRUE /\ serial = TRUE

\* ----------------------------------------------------------------- actions
\* copy_files_deduplicated, lines 330-350: the checks and the size index
BeginBatch(c, cfg, vf, order) ==
    /\ pc \in {"idle", "done", "failed"}
    /\ runs < MaxRuns
    /\ runs > 0 => /\ c = cds
                   /\ cfg.dest_d = dest_d
                   /\ cfg.data_d = data_d
                   /\ vf = do_verified_copy
    /\ runs' = runs + 1
    /\ cds' = c
    /\ dest_d' = cfg.dest_d
    /\ data_d' = cfg.data_d
    /\ do_verified_copy' = vf
    /\ snap' = IF pc = "done"
               THEN [valid |-> TRUE, output |-> output, files |-> DataView(fs),
                     res |-> [k \in 1..Len(cds) |-> Resolve(fs, DestPath(dest_d, cds[k]))]]
               ELSE NoSnap
    /\ output' = EmptyMap
    /\ cached_md5' = EmptyMap
    /\ i' = 1
    /\ seen' = <<>>
    /\ dest_p' = <<>>
    /\ link_text' = <<>>
    /\ data_file_p' = <<>>
    /\ matched' = FALSE
    /\ IF StartsWith(cfg.dest_d, cfg.data_d)
       THEN /\ pc' = "failed"
            /\ err' = Raised("ValueError", <<>>, cfg.dest_d)
            /\ data_sizes' = EmptyMap
       ELSE IF \E k \in 1..Len(c) : ~IsFile(fs, dirs, c[k].source_p)
       THEN /\ pc' = "failed"
            /\ err' = Raised("NameError", <<>>, <<>>)
            /\ data_sizes' = EmptyMap
       ELSE /\ pc' = "loop"
            /\ err' = NoErr
            /\ data_sizes' = DirFilesKeyedBySize(fs, order)
    /\ committed' = fs
    /\ hashed' = <<>>
    /\ UNCHANGED <<fs, dirs, copy_fault, race, num_digits>>

\* lines 357 and 483: what the call of copy_file_deduplicated, r, left
TakeResult(r, mode) ==
    /\ fs' = r.fs
    /\ dirs' = r.dirs
    /\ cached_md5' = r.cache
    /\ hashed' = hashed \o r.hashed
    /\ data_file_p' = r.data_file_p
    /\ link_text' = r.relative_p
    /\ matched' = r.matched
    /\ err' = r.err
    /\ pc' = IF r.err = NoErr THEN "unlink" ELSE "failed"
    /\ copy_fault' = (copy_fault /\ (mode = "exact" \/ r.fs = fs))

\* a request that is not link-in-place: lines 354-364 and, in
\* copy_file_deduplicated, lines 426-474
CopyFileDeduplicated(mode) ==
    /\ pc = "loop"
    /\ i <= Len(cds)
    /\ ~cds[i].link_in_place
    /\ dest_p' = DestPath(dest_d, cds[i])
    /\ seen' = Append(seen, IF IsFile(fs, dirs, cds[i].source_p)
                            THEN ReadFile(fs, cds[i].source_p) ELSE NoData)
    /\ TakeResult(ResolveAndStore(fs, dirs, data_sizes, cached_md5, cds[i].source_p,
                                  DestPath(dest_d, cds[i]), data_d, do_verified_copy, mode),
                  mode)
    /\ UNCHANGED <<cds, dest_d, data_d, do_verified_copy, data_sizes,
                   output, i, runs, snap, committed, race, num_digits>>

\* a link-in-place request: lines 354 and 366
LinkInPlace ==
    /\ pc = "loop"
    /\ i <= Len(cds)
    /\ cds[i].link_in_place
    /\ LET cd == cds[i]
           dp == DestPath(dest_d, cd)
           md == MakeDirs(fs, dirs, Split(dp)[1])
       IN /\ dest_p' = dp
          /\ seen' = Append(seen, IF IsFile(fs, dirs, cd.source_p)
                                  THEN ReadFile(fs, cd.source_p) ELSE NoData)
          /\ link_text' = cd.source_p
          /\ dirs' = md.dirs
          /\ err' = IF md.ok THEN NoErr ELSE Raised("FileExistsError", <<>>, Split(dp)[1])
          /\ pc' = IF md.ok THEN "unlink" ELSE "failed"
    /\ data_file_p' = <<>>
    /\ matched' = FALSE
    /\ UNCHANGED <<fs, copy_fault, cds, dest_d, data_d, do_verified_copy, data_sizes,
                   cached_md5, output, i, runs, snap, committed, hashed, race, num_digits>>

\* lines 476-477 and 367-368: if os.path.exists(dest_p): os.unlink(dest_p)
Unlink ==
    /\ pc = "unlink"
    /\ IF ~Exists(fs, dirs, dest_p)
       THEN /\ pc' = "symlink"
            /\ UNCHANGED <<fs, err>>
       ELSE IF Loc(dest_p) \in DOMAIN fs
       THEN /\ fs' = [l \in DOMAIN fs \ {Loc(dest_p)} |-> fs[l]]
            /\ pc' = "symlink"
            /\ UNCHANGED err
       ELSE /\ pc' = "failed"
            /\ err' = Raised("PermissionError", <<>>, dest_p)
            /\ UNCHANGED fs
    /\ UNCHANGED <<dirs, copy_fault, cds, dest_d, data_d, do_verified_copy, data_sizes,
                   cached_md5, output, i, dest_p, link_text, data_file_p, matched,
                   seen, runs, snap, committed, hashed, race, num_digits>>

\* a loop that takes the same request again
SameRequest(k) == k

\* line 352: the for loop goes to the next request of the list
NextRequest(k) == k + 1

\* lines 478-483 with the assignment of line 357, and line 369
Symlink ==
    /\ pc = "symlink"
    /\ IF Loc(dest_p) \in DOMAIN fs \/ Loc(dest_p) \in dirs
       THEN /\ pc' = "failed"
            /\ err' = Raised("FileExistsError", link_text, dest_p)
            /\ UNCHANGED <<fs, data_sizes, output, i, committed>>
       ELSE LET f2 == (Loc(dest_p) :> LinkEntry(link_text)) @@ fs
            IN /\ fs' = f2
               /\ committed' = IF ~cds[i].link_in_place /\ ~IsFile(f2, dirs, data_file_p)
                               THEN committed ELSE f2
               /\ IF cds[i].link_in_place
                  THEN /\ pc' = "loop"
                       /\ i' = NextRequest(i)
                       /\ UNCHANGED <<err, data_sizes, output>>
                  ELSE IF ~IsFile(f2, dirs, data_file_p)
                  THEN /\ pc' = "failed"
                       /\ err' = Raised("OSError", data_file_p, <<>>)
                       /\ UNCHANGED <<data_sizes, output, i>>
                  ELSE /\ data_sizes' = AddFileToDictBySize(f2, data_file_p, data_sizes)
                       /\ output' = (cds[i].source_p :> data_file_p) @@ output
                       /\ pc' = "loop"
                       /\ i' = NextRequest(i)
                       /\ UNCHANGED err
    /\ UNCHANGED <<dirs, copy_fault, cds, dest_d, data_d, do_verified_copy, cached_md5,
                   dest_p, link_text, data_file_p, matched, seen, runs, snap, hashed,
                   race, num_digits>>

\* line 371: return output
Return ==
    /\ pc = "loop"
    /\ i > Len(cds)
    /\ pc' = "done"
    /\ UNCHANGED <<fs, dirs, copy_fault, err, cds, dest_d, data_d, do_verified_copy,
                   data_sizes, cached_md5, output, i, dest_p, link_text, data_file_p,
                   matched, seen, runs, snap, committed, hashed, race, num_digits>>

Next ==
    \/ /\ pc \in {"idle", "done", "failed"}
       /\ runs < MaxRuns
       /\ \E c \in (IF runs = 0 THEN Batches ELSE {cds}),
             cfg \in (IF runs = 0 THEN Configs ELSE {[dest_d |-> dest_d, data_d |-> data_d]}),
             vf \in (IF runs = 0 THEN BOOLEAN ELSE {do_verified_copy}) :
            \E order \in Listings(ListedPaths(fs, dirs, cfg.data_d)) :
               BeginBatch(c, cfg, vf, order)
    \/ \E mode \in Modes(copy_fault) : CopyFileDeduplicated(mode)
    \/ LinkInPlace
    \/ Unlink
    \/ Symlink
    \/ Return

Spec == Init /\ [][Next]_vars

SpecFault == InitFault /\ [][Next]_vars

\* ------------------------------------------------------------ a call runs on
\* A call in progress, and the part of it that works on a request
Busy == pc \in {"loop", "unlink", "symlink"}
Requesting == pc \in {"unlink", "symlink"} \/ (pc = "loop" /\ i <= Len(cds))

RequestStep ==
    \/ \E mode \in Modes(copy_fault) : CopyFileDeduplicated(mode)
    \/ LinkInPlace
    \/ Unlink
    \/ Symlink

\* The interpreter executes the statement the call is at: weak fairness of
\* Return and of RequestStep. A request step is enabled exactly when
\* Requesting holds (the guards of the four actions are tests of pc, i and
\* link_in_place, and every branch assigns), so WF_vars(RequestStep) is
\* written with Requesting for ENABLED <<RequestStep>>_vars.
Progress ==
    /\ WF_vars(Return)
    /\ ([]<>(~Requesting) \/ []<><<RequestStep>>_vars)

\* calls are made with no padding as well as with the default one
InitLive == num_digits \in {0, 4} /\ InitBase /\ copy_fault = FALSE /\ serial = TRUE

SpecLive == InitLive /\ [][Next]_vars /\ Progress

\* ------------------------------------------- concurrent versioned naming
\* Each writer calls copy_and_add_ver_num(source_p, data_d, x, ...) on its
\* own; a step is one system call. When serial, a call starts only while no
\* other call is under way.
batch == <<num_digits, copy_fault, pc, err, cds, dest_d, data_d, do_verified_copy, data_sizes,
           cached_md5, output, i, dest_p, link_text, data_file_p, matched, seen,
           runs, snap, committed, hashed>>

RaceSources == {SrcA, SrcC}

\* the versioned path writer w is at
WriterPath(w) == VersionedPath(DataDir, NameX, <<>>, writers[w].v)

\* lines 132-135: the call starts with version 1
CallNamer(w, source_p) ==
    /\ writers[w].pc \in {"idle", "done"}
    /\ writers[w].calls < MaxRuns
    /\ serial => \A o \in Writers : writers[o].pc \in {"idle", "done"}
    /\ writers' = [writers EXCEPT ![w].pc = "scan", ![w].source_p = source_p,
                                  ![w].v = 1, ![w].calls = @ + 1]
    /\ UNCHANGED <<fs, dirs, serial, batch>>

\* lines 135-143: one test of the while loop
Probe(w) ==
    /\ writers[w].pc = "scan"
    /\ writers' = [writers EXCEPT
                      ![w].pc = ProbeVersion(fs, dirs, DataDir, NameX, <<>>, writers[w].v).pc,
                      ![w].v = ProbeVersion(fs, dirs, DataDir, NameX, <<>>, writers[w].v).v]
    /\ UNCHANGED <<fs, dirs, serial, batch>>

\* lines 145-150: the copy to the path found, and the return of the path
CopyFound(w) ==
    /\ writers[w].pc = "copy"
    /\ fs' = ShutilCopy(fs, dirs, writers[w].source_p, WriterPath(w), "exact").fs
    /\ writers' = [writers EXCEPT
                      ![w].pc = "done",
                      ![w].made = Append(@, [path |-> WriterPath(w),
                                             data |-> ReadFile(fs, writers[w].source_p)])]
    /\ UNCHANGED <<dirs, serial, batch>>

NextRace ==
    \/ \E w \in Writers, source_p \in RaceSources : CallNamer(w, source_p)
    \/ \E w \in Writers : Probe(w)
    \/ \E w \in Writers : CopyFound(w)

InitRace == num_digits = 4 /\ InitBase /\ copy_fault = FALSE /\ serial \in BOOLEAN

SpecRace == InitRace /\ [][NextRace]_vars

\* ------------------------------------- the module src/bvzversionedfiles.py
\* The earlier module of the same name. Its lines 1-150 (md5_for_file,
\* files_are_identical, verified_copy_file, copy_and_add_ver_num) are those
\* of the package; its copy_files_deduplicated takes a dict
\* {source_p: dest_relative_p} and has no link-in-place requests.

\* lines 328-342: the stored file c (copied, or matched) is in hand; the
\* text of the link is os.path.join(data_file_p, dest_p)
LegacyStoredFile(d, dp, m, c) ==
    IF c.err # NoErr
    THEN Failure(c.err, c.fs, d, m.cache, m.hashed)
    ELSE [err |-> NoErr, fs |-> c.fs, dirs |-> d, cache |-> m.cache,
          hashed |-> m.hashed,
          data_file_p |-> c.path,
          relative_p |-> Join(c.path, dp),
          matched |-> (m.res = "hit")]

\* lines 328-336: the copy on a miss, on the outcome m of the search
LegacyStoreOrReuse(f, d, source_p, dp, data, verify, mode, m) ==
    IF m.res = "error"
    THEN Failure(Raised("OSError", m.path, <<>>), f, d, m.cache, m.hashed)
    ELSE LegacyStoredFile(d, dp, m,
                          IF m.res = "miss"
                          THEN CopyAndAddVerNum(f, d, source_p, Join(data, Split(dp)[2]),
                                                verify, mode)
                          ELSE [err |-> NoErr, fs |-> f, path |-> m.path])

\* lines 295-342 of the earlier copy_file_deduplicated
LegacyResolveAndStore(f, d, ds, cache, source_p, dp, data, verify, mode) ==
    IF StartsWith(dp, data)
    THEN Failure(Raised("ValueError", <<>>, dp), f, d, cache, <<>>)
    ELSE IF ~IsFile(f, d, source_p)
    THEN Failure(Raised("ValueError", source_p, <<>>), f, d, cache, <<>>)
    ELSE LegacyStoreOrReuse(f, d, source_p, dp, data, verify, mode,
                            LookUp(f, d, ds, cache, source_p, GetSize(f, source_p)))

\* the dicts a caller passes: the items in their order, the keys distinct
LegacyBatches ==
    {b \in UNION {[1..n -> {cd \in Requests : ~cd.link_in_place}] : n \in 1..MaxBatchLen} :
        \A j, k \in 1..Len(b) : j # k => b[j].source_p # b[k].source_p}

\* the first source of c that is not a file
FirstBadSource(f, d, c) ==
    c[CHOOSE k \in 1..Len(c) :
          /\ ~IsFile(f, d, c[k].source_p)
          /\ \A j \in 1..(k - 1) : IsFile(f, d, c[j].source_p)].source_p

\* the earlier copy_files_deduplicated, lines 206-227
LegacyBeginBatch(c, cfg, vf, order) ==
    /\ pc \in {"idle", "done", "failed"}
    /\ runs < MaxRuns
    /\ runs > 0 => /\ c = cds
                   /\ cfg.dest_d = dest_d
                   /\ cfg.data_d = data_d
                   /\ vf = do_verified_copy
    /\ runs' = runs + 1
    /\ cds' = c
    /\ dest_d' = cfg.dest_d
    /\ data_d' = cfg.data_d
    /\ do_verified_copy' = vf
    /\ snap' = NoSnap
    /\ output' = EmptyMap
    /\ cached_md5' = EmptyMap
    /\ i' = 1
    /\ seen' = <<>>
    /\ dest_p' = <<>>
    /\ link_text' = <<>>
    /\ data_file_p' = <<>>
    /\ matched' = FALSE
    /\ IF StartsWith(cfg.dest_d, cfg.data_d)
       THEN /\ pc' = "failed"
            /\ err' = Raised("ValueError", <<>>, cfg.dest_d)
            /\ data_sizes' = EmptyMap
       ELSE IF \E k \in 1..Len(c) : ~IsFile(fs, dirs, c[k].source_p)
       THEN /\ pc' = "failed"
            /\ err' = Raised("ValueError", FirstBadSource(fs, dirs, c), <<>>)
            /\ data_sizes' = EmptyMap
       ELSE /\ pc' = "loop"
            /\ err' = NoErr
            /\ data_sizes' = DirFilesKeyedBySize(fs, order)
    /\ committed' = fs
    /\ hashed' = <<>>
    /\ UNCHANGED <<fs, dirs, copy_fault, race, num_digits>>

\* a request: lines 229-238 and, in copy_file_deduplicated, lines 295-342
LegacyCopyFileDeduplicated(mode) ==
    /\ pc = "loop"
    /\ i <= Len(cds)
    /\ dest_p' = DestPath(dest_d, cds[i])
    /\ seen' = Append(seen, IF IsFile(fs, dirs, cds[i].source_p)
                            THEN ReadFile(fs, cds[i].source_p) ELSE NoData)
    /\ TakeResult(LegacyResolveAndStore(fs, dirs, data_sizes, cached_md5, cds[i].source_p,
                                        DestPath(dest_d, cds[i]), data_d, do_verified_copy,
                                        mode),
                  mode)
    /\ UNCHANGED <<cds, dest_d, data_d, do_verified_copy, data_sizes,
                   output, i, runs, snap, committed, race, num_digits>>

\* lines 343-348 with the assignment of line 231: os.symlink, then the
\* source is added to the size index, and the stored path is the result
LegacySymlink ==
    /\ pc = "symlink"
    /\ IF Loc(dest_p) \in DOMAIN fs \/ Loc(dest_p) \in dirs
       THEN /\ pc' = "failed"
            /\ err' = Raised("FileExistsError", link_text, dest_p)
            /\ UNCHANGED <<fs, data_sizes, output, i, committed>>
       ELSE IF Parent(Loc(dest_p)) \notin dirs
       THEN /\ pc' = "failed"
            /\ err' = Raised("FileNotFoundError", link_text, dest_p)
            /\ UNCHANGED <<fs, data_sizes, output, i, committed>>
       ELSE /\ fs' = (Loc(dest_p) :> LinkEntry(link_text)) @@ fs
            /\ committed' = fs'
            /\ IF ~IsFile(fs', dirs, cds[i].source_p)
               THEN /\ pc' = "failed"
                    /\ err' = Raised("OSError", cds[i].source_p, <<>>)
                    /\ UNCHANGED <<data_sizes, output, i>>
               ELSE /\ data_sizes' = AddFileToDictBySize(fs', cds[i].source_p, data_sizes)
                    /\ output' = (cds[i].source_p :> data_file_p) @@ output
                    /\ pc' = "loop"
                    /\ i' = NextRequest(i)
                    /\ UNCHANGED err
    /\ UNCHANGED <<dirs, copy_fault, cds, dest_d, data_d, do_verified_copy, cached_md5,
                   dest_p, link_text, data_file_p, matched, seen, runs, snap, hashed,
                   race, num_digits>>

NextLegacy ==
    \/ /\ pc \in {"idle", "done", "failed"}
       /\ runs < MaxRuns
       /\ \E c \in (IF runs = 0 THEN LegacyBatches ELSE {cds}),
             cfg \in (IF runs = 0 THEN Configs ELSE {[dest_d |-> dest_d, data_d |-> data_d]}),
             vf \in (IF runs = 0 THEN BOOLEAN ELSE {do_verified_copy}) :
            \E order \in Listings(ListedPaths(fs, dirs, cfg.data_d)) :
               LegacyBeginBatch(c, cfg, vf, order)
    \/ LegacyCopyFileDeduplicated("exact")
    \/ Unlink
    \/ LegacySymlink
    \/ Return

\* the destination directory exists or not; nothing makes it
InitLegacy ==
    /\ num_digits = 4
    /\ \/ fs = SourceFiles /\ dirs = InitDirs
       \/ fs = SourceFiles /\ dirs = InitDirs \cup {Loc(DestRoot)}
       \/ fs = UsedTree /\ dirs = InitDirs \cup {Loc(DestRoot)}
    /\ InitCall
    /\ copy_fault = FALSE
    /\ serial = TRUE

SpecLegacy == InitLegacy /\ [][NextLegacy]_vars

\* ------------------------------------------------------------ the claims
NonLip(k) == ~cds[k].link_in_place

\* request k is the last one of the batch to set output[source_p]
LastForSource(k) ==
    \A m \in (k + 1)..Len(cds) : NonLip(m) => cds[m].source_p # cds[k].source_p

\* request k is the last one of the batch to write its destination path
LastForDest(k) ==
    \A m \in (k + 1)..Len(cds) :
        Loc(DestPath(dest_d, cds[m])) # Loc(DestPath(dest_d, cds[k]))

\* dest lies at or beneath data (as directories, whatever the spelling)
Nested(dest, data) ==
    Len(Loc(data)) <= Len(Loc(dest)) /\ SubSeq(Loc(dest), 1, Len(Loc(data))) = Loc(data)

\* C1 - dedup invariant: when the batch has returned, two requests that are
\* not link-in-place and whose sources held the same bytes when processed
\* have the same stored path in the returned mapping.
C1_DedupInvariant ==
    pc = "done" =>
        \A j, k \in 1..Len(cds) :
            (/\ NonLip(j) /\ NonLip(k)
             /\ LastForSource(j) /\ LastForSource(k)
             /\ seen[j] = seen[k])
            => output[cds[j].source_p] = output[cds[k].source_p]

\* C2 - link correctness: when the batch has returned, the destination path
\* of every request (the last one to write that path) resolves to a file
\* holding the bytes the request's source held when it was processed.
C2_LinkCorrectness ==
    pc = "done" =>
        \A k \in 1..Len(cds) :
            LastForDest(k) =>
                /\ IsFile(fs, dirs, DestPath(dest_d, cds[k]))
                /\ ReadFile(fs, DestPath(dest_d, cds[k])) = seen[k]

\* C3 - distinctness invariant: when the batch has returned, two requests
\* that are not link-in-place and whose sources held different bytes of the
\* same size have different stored paths in the returned mapping.
C3_DistinctnessInvariant ==
    pc = "done" =>
        \A j, k \in 1..Len(cds) :
            (/\ NonLip(j) /\ NonLip(k)
             /\ LastForSource(j) /\ LastForSource(k)
             /\ Len(seen[j]) = Len(seen[k])
             /\ seen[j] # seen[k])
            => output[cds[j].source_p] # output[cds[k].source_p]

\* C4 - idempotence: when a batch that returned is run again with the same
\* arguments and returns, the data directory has no entry it did not have,
\* the mapping is the same and every destination resolves as before.
C4_Idempotence ==
    (pc = "done" /\ snap.valid) =>
        /\ DOMAIN DataView(fs) \subseteq DOMAIN snap.files
        /\ output = snap.output
        /\ \A k \in 1..Len(cds) :
               Resolve(fs, DestPath(dest_d, cds[k])) = snap.res[k]

\* C5 - stored files are immutable: no step removes or changes a regular
\* file of the data directory.
C5_StoredFilesImmutable ==
    [][\A l \in DOMAIN DataView(fs) :
          fs[l].kind = "file" => (l \in DOMAIN fs' /\ fs'[l] = fs[l])]_vars

\* C6 - naming invariant: a file that copy_and_add_ver_num creates for base B
\* and extension E is B + version N + E in the data directory, and every
\* version below N was taken when it was created (so a freed slot is reused).
C6_NamingInvariant ==
    [][(pc = "loop" /\ i <= Len(cds) /\ NonLip(i)) =>
          \A l \in DOMAIN fs' \ DOMAIN fs :
              LET se == SplitExt(Split(DestPath(dest_d, cds[i]))[2])
              IN \E n \in 1..(Cardinality(DOMAIN fs) + 1) :
                    /\ l = Loc(VersionedPath(data_d, se[1], se[2], n))
                    /\ \A m \in 1..(n - 1) :
                          Loc(VersionedPath(data_d, se[1], se[2], m)) \in DOMAIN fs]_vars

\* C6 witness: x.v1 has just been created while x.v2 exists
C6_GapFilled ==
    /\ pc = "unlink"
    /\ ~matched
    /\ data_file_p = <<SEP, Tok("d"), SEP, Tok("x"), Version(1)>>
    /\ Loc(GapFile) \in DOMAIN fs
    /\ fs[Loc(data_file_p)].kind = "file"

\* C7 - verified-copy law: with do_verified_copy, a copy that differs from the
\* source makes the request fail with the verification error naming the
\* source and the copy; the destination entry is left as it was, the copy
\* stays in the data directory and the mapping does not hold it.
C7_VerifiedCopyLaw ==
    [][(pc = "loop" /\ i <= Len(cds) /\ NonLip(i) /\ do_verified_copy) =>
          \A l \in DOMAIN fs' \ DOMAIN fs :
              fs'[l].data # ReadFile(fs, cds[i].source_p) =>
                  /\ pc' = "failed"
                  /\ err'.kind = "IOError"
                  /\ err'.src = cds[i].source_p
                  /\ Loc(err'.dst) = l
                  /\ Parent(l) = Loc(data_d)
                  /\ LET dl == Loc(DestPath(dest_d, cds[i]))
                     IN /\ dl \in DOMAIN fs' <=> dl \in DOMAIN fs
                        /\ dl \in DOMAIN fs => fs'[dl] = fs[dl]
                  /\ output' = output
                  /\ \A s \in DOMAIN output' : Loc(output'[s]) # l]_vars

\* C7 witness: the call failed on the verification of a damaged copy, which
\* is still there
C7_VerificationFailed ==
    /\ pc = "failed"
    /\ do_verified_copy
    /\ err.kind = "IOError"
    /\ IsFile(fs, dirs, err.dst)
    /\ IsFile(fs, dirs, err.src)
    /\ ReadFile(fs, err.dst) # ReadFile(fs, err.src)

\* C8 - link-in-place bypass: the steps of a link-in-place request leave the
\* data directory, the size index and the hash cache as they were, and the
\* link they create holds source_p.
C8_LinkInPlaceBypass ==
    [][(pc \in {"loop", "unlink", "symlink"} /\ i <= Len(cds) /\ ~NonLip(i)) =>
          /\ DataView(fs') = DataView(fs)
          /\ data_sizes' = data_sizes
          /\ cached_md5' = cached_md5
          /\ (pc = "symlink" /\ pc' = "loop") =>
                 fs'[Loc(DestPath(dest_d, cds[i]))] = LinkEntry(cds[i].source_p)]_vars

\* C9 - returned mapping: when the batch has returned, the keys of the
\* mapping are the sources of the requests that are not link-in-place, and
\* every value is the path of an existing file of the data directory.
C9_ReturnedMapping ==
    pc = "done" =>
        /\ DOMAIN output = {cds[k].source_p : k \in {m \in 1..Len(cds) : NonLip(m)}}
        /\ \A s \in DOMAIN output :
               /\ IsFile(fs, dirs, output[s])
               /\ Parent(Loc(output[s])) = Loc(data_d)

\* C10 - configuration precondition: a call whose dest_d is the data
\* directory or lies beneath it changes nothing in the file system, does not
\* return, and the error it ends with is ValueError.
C10_ConfigurationPrecondition ==
    [][(pc' # "idle" /\ Nested(dest_d', data_d')) =>
          /\ fs' = fs
          /\ dirs' = dirs
          /\ pc' # "done"
          /\ pc' = "failed" => err'.kind = "ValueError"]_vars

\* C11 - source pre-check: a call that passes the configuration test while a
\* request's source is not a regular file fails with ValueError naming such
\* a source, and changes nothing in the file system.
C11_SourcePreCheck ==
    [][(/\ runs' = runs + 1
        /\ ~StartsWith(dest_d', data_d')
        /\ \E k \in 1..Len(cds') : ~IsFile(fs, dirs, cds'[k].source_p)) =>
          /\ pc' = "failed"
          /\ err'.kind = "ValueError"
          /\ \E k \in 1..Len(cds') :
                /\ ~IsFile(fs, dirs, cds'[k].source_p)
                /\ err'.src = cds'[k].source_p
          /\ fs' = fs
          /\ dirs' = dirs]_vars

\* C13 - Copy Request validation: the source of every constructed request
\* was a regular file when the request was constructed.
C13_CopyRequestValidation ==
    \A k \in 1..Len(cds) : IsFile(SourceFiles, InitDirs, cds[k].source_p)

\* C12 - failure semantics: when a request fails the call has ended (the
\* next step is a new call, and it finds the file system as the failure left
\* it), and everything the earlier requests left in the file system is
\* still there unchanged.
C12_FailureSemantics ==
    /\ pc = "failed" =>
          \A l \in DOMAIN committed : l \in DOMAIN fs /\ fs[l] = committed[l]
    /\ pc = "failed" => ~ENABLED (CopyFileDeduplicated("exact") \/ LinkInPlace
                                    \/ Unlink \/ Symlink \/ Return)

\* C14 - permission normalization: when the batch has returned, every file
\* it stored has the permission bits rw-r--r-- (0644), whatever the bits of
\* its source.
C14_PermissionNormalization ==
    pc = "done" =>
        \A s \in DOMAIN output :
            (Loc(output[s]) \in DOMAIN fs /\ fs[Loc(output[s])].kind = "file")
            => fs[Loc(output[s])].perm = "0644"

\* C15 - link replacement: a file or link (live or stale) at the destination
\* path does not make the unlink step fail, and the link step then leaves
\* the new link at the path, whatever entry was there.
C15_LinkReplacement ==
    [][/\ (pc = "unlink" /\ Loc(dest_p) \in DOMAIN fs) => pc' # "failed"
       /\ (pc = "symlink" /\ Loc(dest_p) \notin dirs) =>
             /\ Loc(dest_p) \in DOMAIN fs'
             /\ fs'[Loc(dest_p)] = LinkEntry(link_text)]_vars

\* C16 - atomic replacement: while a request replaces the entry at its
\* destination path, a path of the destination tree, no step leaves the
\* path without an entry.
C16_AtomicReplacement ==
    [][(/\ pc \in {"unlink", "symlink"}
        /\ Nested(dest_p, dest_d)
        /\ Loc(dest_p) \in DOMAIN fs) =>
          Loc(dest_p) \in DOMAIN fs']_vars

\* the location loc after the tree that holds dest_d and data_d is moved
\* beneath a directory m
Moved(loc) == << <<Tok("m")>> >> \o loc

Occurrences(ds, p) ==
    Cardinality({<<s, k>> \in UNION {{s} \X (1..Len(ds[s])) : s \in DOMAIN ds} :
                    ds[s][k] = p})

\* C18 - Size Index maintenance: a request that stored a new file adds its
\* path to the index once, under the key of its size; a request that hit a
\* stored file leaves the index as it was; no path is in the index twice.
C18_SizeIndexMaintenance ==
    [][(pc = "symlink" /\ pc' = "loop" /\ NonLip(i)) =>
          /\ matched => data_sizes' = data_sizes
          /\ ~matched =>
                /\ GetSize(fs', data_file_p) \in DOMAIN data_sizes'
                /\ Occurrences(data_sizes', data_file_p)
                      = Occurrences(data_sizes, data_file_p) + 1
          /\ Occurrences(data_sizes', data_file_p) = 1]_vars

\* the number of positions of the sequence q that hold p
Count(q, p) == Cardinality({k \in 1..Len(q) : q[k] = p})

\* C19 - Hash Cache economy: within a call no candidate file is hashed more
\* than once, and every cached digest is the digest of what the file holds
\* now.
C19_HashCacheEconomy ==
    pc \in {"loop", "unlink", "symlink", "done"} =>
        \A p \in DOMAIN cached_md5 :
            /\ Count(hashed, p) <= 1
            /\ IsFile(fs, dirs, p) => cached_md5[p] = Md5ForFile(fs, p)

\* the candidates the size index has for the source of request k
Candidates(k) ==
    IF GetSize(fs, cds[k].source_p) \in DOMAIN data_sizes
    THEN data_sizes[GetSize(fs, cds[k].source_p)]
    ELSE <<>>

\* C20 - size pre-filter: for a request that passes the checks of
\* copy_file_deduplicated, when the size index has no candidate of the
\* source's size nothing is hashed and no match is reported; when it has
\* candidates the source is hashed exactly once.
C20_SizePreFilter ==
    [][(/\ pc = "loop" /\ i <= Len(cds) /\ NonLip(i)
        /\ ~StartsWith(DestPath(dest_d, cds[i]), data_d)
        /\ IsFile(fs, dirs, cds[i].source_p)) =>
          LET new == SubSeq(hashed', Len(hashed) + 1, Len(hashed'))
          IN /\ Candidates(i) = <<>> => (new = <<>> /\ ~matched')
             /\ Candidates(i) # <<>> =>
                   (Count(new, cds[i].source_p) = 1 /\ new[1] = cds[i].source_p)]_vars

\* C20 witness: the second request found two candidates of its size, one of
\* them already in the cache, and hit the other after hashing its source once
C20_TwoCandidates ==
    /\ pc = "unlink"
    /\ i = 2
    /\ matched
    /\ Len(hashed) = 4
    /\ hashed[3] = cds[2].source_p
    /\ hashed[4] = data_file_p
    /\ hashed[2] \in DOMAIN cached_md5
    /\ hashed[2] # data_file_p

\* candidate k of request n holds the bytes of the request's source
SameDigest(n, k) ==
    /\ IsFile(fs, dirs, Candidates(n)[k])
    /\ Md5ForFile(fs, Candidates(n)[k]) = Md5ForFile(fs, cds[n].source_p)

\* C21 - first match wins: a request that hits takes the first candidate of
\* its size, in the order of the size index, whose digest is the source's,
\* and no candidate after that one is hashed or cached.
C21_FirstMatchWins ==
    [][(pc = "loop" /\ i <= Len(cds) /\ NonLip(i) /\ matched') =>
          \E k \in 1..Len(Candidates(i)) :
              /\ Candidates(i)[k] = data_file_p'
              /\ SameDigest(i, k)
              /\ \A j \in 1..(k - 1) : ~SameDigest(i, j)
              /\ \A p \in DOMAIN cached_md5' \ DOMAIN cached_md5 :
                    \E j \in 1..k : Candidates(i)[j] = p]_vars

\* the calls of copy_and_add_ver_num that returned: writer, call number
Returned == {c \in Writers \X (1..MaxRuns) : c[2] <= Len(writers[c[1]].made)}
Made(c) == writers[c[1]].made[c[2]]

\* C22 - namer race: when the calls of copy_and_add_ver_num take turns, no
\* two of them return the same versioned path and every stored file holds
\* the bytes of the source it was made from; without turns this fails.
C22_NamerRace ==
    serial => \A c \in Returned :
                 /\ ReadFile(fs, Made(c).path) = Made(c).data
                 /\ \A o \in Returned : o # c => Made(o).path # Made(c).path

\* C22 witness: two concurrent writers were given the same versioned name,
\* and the file of one of them was overwritten by the other
C22_Overwritten ==
    /\ ~serial
    /\ writers[1].pc = "done" /\ writers[2].pc = "done"
    /\ Len(writers[1].made) = 1 /\ Len(writers[2].made) = 1
    /\ writers[1].made[1].path = writers[2].made[1].path
    /\ writers[1].made[1].data # writers[2].made[1].data
    /\ ReadFile(fs, writers[1].made[1].path) # writers[1].made[1].data

\* what is left of the call: three statements for each request to come
Measure ==
    CASE pc = "loop" -> 3 * (Len(cds) + 1 - i) + 1
      [] pc = "unlink" -> 3 * (Len(cds) + 1 - i)
      [] pc = "symlink" -> 3 * (Len(cds) + 1 - i) - 1
      [] OTHER -> 0

\* the versions of the name of request k that exist in the data directory
InUse(k) ==
    {n \in 1..(Cardinality(DOMAIN fs) + 1) :
        Exists(fs, dirs, VersionedPath(data_d,
                                       SplitExt(Split(DestPath(dest_d, cds[k]))[2])[1],
                                       SplitExt(Split(DestPath(dest_d, cds[k]))[2])[2], n))}

\* the versioned name request k gets when its search stops at version v
Probed(k, v) ==
    Loc(VersionedPath(data_d, SplitExt(Split(DestPath(dest_d, cds[k]))[2])[1],
                      SplitExt(Split(DestPath(dest_d, cds[k]))[2])[2], v))

\* C23 - termination: a call that was started ends, by returning after the
\* last request or by raising; until then every step brings it nearer to
\* its end, the requests are taken one by one in the order of the list,
\* nothing is done after an error, and a version search stops within one
\* probe more than there are versions of the name in the data directory,
\* whatever the padding.
C23_Termination ==
    /\ Busy ~> (pc \in {"done", "failed"})
    /\ [][/\ Busy => /\ Measure' < Measure
                      /\ Measure' >= 0
                      /\ i' \in {i, i + 1}
                      /\ i \in 1..(Len(cds) + 1)
                      /\ cds' = cds
          /\ (pc = "loop" /\ pc' = "unlink") => dest_p' = DestPath(dest_d, cds[i])
          /\ (Busy /\ pc' = "done") => /\ i = Len(cds) + 1
                                        /\ Len(seen) = Len(cds)
          /\ \lnot Busy => pc' \in {"loop", "failed"} /\ runs' = runs + 1
          /\ (pc = "loop" /\ pc' = "unlink" /\ NonLip(i) /\ ~matched') =>
                \E v \in 1..(Cardinality(InUse(i)) + 1) :
                    Loc(data_file_p') = Probed(i, v)]_vars

\* C23 witness: a call made without padding returned after its version
\* search went past a version in use
C23_Returned ==
    /\ pc = "done"
    /\ num_digits = 0
    /\ Len(cds) >= 2
    /\ \E k \in 1..Len(cds) :
          /\ NonLip(k)
          /\ cds[k].source_p \in DOMAIN output
          /\ Loc(output[cds[k].source_p]) = Probed(k, 2)

\* C24 - sources are preserved: when a call on the trees as first found
\* returns, every source of its requests is still the regular file it was,
\* with the same bytes.
C24_SourcesPreserved ==
    (pc = "done" /\ runs = 1) =>
        \A k \in 1..Len(cds) :
            /\ Loc(cds[k].source_p) \in DOMAIN fs
            /\ fs[Loc(cds[k].source_p)].kind = "file"
            /\ fs[Loc(cds[k].source_p)].data = SourceFiles[Loc(cds[k].source_p)].data

\* loc lies at or beneath the directory root
Beneath(loc, root) == Len(root) <= Len(loc) /\ SubSeq(loc, 1, Len(root)) = root

\* the entries a step removed, made or replaced
Touched(f, g) ==
    {l \in DOMAIN f \cup DOMAIN g : l \notin DOMAIN f \/ l \notin DOMAIN g \/ f[l] # g[l]}

\* C25 - links stay inside the destination root: apart from the files it
\* stores in the data directory, every entry a step of a call removes,
\* makes or replaces, and every directory it makes, lies at or beneath
\* dest_d.
C25_InsideDestRoot ==
    [][Busy =>
          /\ \A l \in Touched(fs, fs') :
                \/ Beneath(l, Loc(dest_d))
                \/ /\ l \in DOMAIN fs' /\ fs'[l].kind = "file"
                   /\ l \notin DOMAIN fs
                   /\ Parent(l) = Loc(data_d)
          /\ \A l \in dirs' \ dirs : Beneath(l, Loc(dest_d))]_vars

\* C26 - no false configuration error: the nesting check, of the call or of
\* a request, raises its ValueError only for a path that is the data
\* directory or lies beneath it.
C26_NoFalseConfigurationError ==
    [][(/\ pc' = "failed"
        /\ pc # "failed" \/ runs' # runs
        /\ err'.kind = "ValueError"
        /\ err'.src = <<>>) => Nested(err'.dst, data_d')]_vars

\* C27 - link target of the earlier module: when its copy_file_deduplicated
\* has made the link of a request, dest_p is a symbolic link that resolves
\* to the stored file the call returns, a file of data_d.
C27_LegacyLinkTarget ==
    [][(pc = "symlink" /\ pc' = "loop") =>
          /\ fs'[Loc(dest_p)].kind = "link"
          /\ Resolve(fs', dest_p) = Loc(data_file_p)
          /\ Beneath(Loc(data_file_p), Loc(data_d))
          /\ output'[cds[i].source_p] = data_file_p]_vars

\* C28 - result location of the earlier module: during and after a call
\* the size index holds paths of files of data_d only, and when the call
\* has returned every value of the mapping is the path of a file of data_d.
C28_LegacyResultLocation ==
    /\ pc \in {"loop", "unlink", "symlink", "done"} =>
          \A size \in DOMAIN data_sizes : \A k \in 1..Len(data_sizes[size]) :
              Beneath(Loc(data_sizes[size][k]), Loc(data_d))
    /\ pc = "done" =>
          \A source_p \in DOMAIN output :
              /\ Beneath(Loc(output[source_p]), Loc(data_d))
              /\ IsFile(fs, dirs, output[source_p])

====
